---- MODULE Spec2Model ----
(***************************************************************************)
(* Change-capture fan-out of the AI email client backend.                  *)
(*                                                                         *)
(* The keyed store is the DynamoDB table "ai-email-client-db" with its     *)
(* stream; the TTS consumer is the Lambda function EmailSummaryTTSFn       *)
(* (lambda/convertSummary.ts, three versions) behind a DynamoEventSource   *)
(* (two versions); the notification consumer is the EventBridge pipe       *)
(* AiEmailClientPipe.  One shard is modelled; a record's sequence token is *)
(* its index in the stream.                                                *)
(***************************************************************************)
EXTENDS Integers, Sequences, FiniteSets, TLC

\* ---- bounds of the model ------------------------------------------------
MaxEvents == 3       \* mutations applied to the table by the environment
MaxUuid == 2         \* identifiers handed out by uuid()
MaxDeliveries == 4   \* deliveries of one stream record to the TTS handler
Keys == {"k1", "k2"} \* (PK, SK) pairs of the table
KeyOrder(k) == IF k = "k1" THEN 1 ELSE 2

\* ---- deployment ---------------------------------------------------------
ENVIRONMENT == "dev"
BUCKET_NAME == "email-bucket"
HandlerVariants == {"multitenant", "basic", "presigned"}
SourceVariants == {"insertOnly", "insertEnv"}

VARIABLES
  handlerVariant,  \* which version of convertSummary.ts is deployed
  sourceVariant,   \* which version of the DynamoEventSource is deployed
  table,           \* the keyed store: key -> item, for the keys that exist
  stream,          \* the shard: sequence of change records
  envOps,          \* number of environment mutations so far
  checkpoint,      \* TTS event source: records 1..checkpoint are passed
  windowEnd,       \* last stream index of the batch window being (re)tried
  attempts,        \* failed invocations of the current batch window
  batch,           \* sequence tokens handed to the running invocation
  task,            \* per record of the batch: position of recordHandler
  artifacts,       \* artifact storage: object key -> object
  nextUuid,        \* next identifier uuid() returns
  deliveries,      \* history: sequence token -> number of deliveries
  writeLog,        \* history: write-backs that took effect
  lastResult,      \* history: outcome of the invocation that just ended
  discarded,       \* history: records dropped after the retries ran out
  pipeCheckpoint,  \* pipe: records 1..pipeCheckpoint are passed
  bus,             \* events the pipe put on the event bus
  eventLog,        \* events the catch-all rule wrote to the log group
  mutations,       \* notifyNewEmail mutations sent to the GraphQL API
  activatedAt,     \* history: length of the stream when the consumers started
  metrics,         \* metrics stored by the running invocation: name -> sum
  published,       \* metrics the invocation that just ended flushed
  loggerTenant,    \* tenant key appended to the module's logger ("" if none)
  mail             \* the sendEmail resolver: its input, position and result

vars == <<handlerVariant, sourceVariant, table, stream, envOps, checkpoint,
          windowEnd, attempts, batch, task, artifacts, nextUuid, deliveries,
          writeLog, lastResult, discarded, pipeCheckpoint, bus, eventLog,
          mutations, activatedAt, metrics, published, loggerTenant, mail>>

Min(S) == CHOOSE x \in S : \A y \in S : x <= y

\* ---- items of the table --------------------------------------------------
\* An item is a record whose DOMAIN is the set of attributes it carries.
EmailItem(env, ai) == [entity |-> "EMAIL", environment |-> env, aiInsights |-> ai]
EmailItemNoEnv(ai) == [entity |-> "EMAIL", aiInsights |-> ai]
UserItem == [entity |-> "USER"]
WithSummary == [summary |-> "Meeting at 10am", category |-> "work"]
NoSummary == [category |-> "work"]

\* the emails of this deployment, and every kind of item
OwnEmails == {EmailItem(ENVIRONMENT, WithSummary), EmailItem(ENVIRONMENT, NoSummary)}
Items == OwnEmails \cup {EmailItemNoEnv(WithSummary), UserItem}

HasAttr(r, a) == a \in DOMAIN r

\* an email that names its tenant, and the emails a deployment that serves
\* several tenants sees
TenantEmail(t, ai) ==
  [entity |-> "EMAIL", environment |-> ENVIRONMENT, tenantId |-> t, aiInsights |-> ai]
TenantEmails ==
  {EmailItem(ENVIRONMENT, WithSummary), TenantEmail("staging", WithSummary)}

\* ---- stream records and the two filters ---------------------------------
\* A change record carries NewImage unless it is a REMOVE.
ChangeRecord(name, k, img) == [eventName |-> name, key |-> k, NewImage |-> img]
RemoveRecord(k) == [eventName |-> "REMOVE", key |-> k]

\* FilterCriteria of the first DynamoEventSource: eventName INSERT
FilterInsertOnly(rec) == rec.eventName = "INSERT"

\* a filter that checks the environment only
FilterInsertEnv_AnyEvent(rec) ==
  /\ HasAttr(rec, "NewImage")
  /\ HasAttr(rec.NewImage, "environment")
  /\ rec.NewImage.environment = ENVIRONMENT

\* FilterCriteria of the second DynamoEventSource: eventName INSERT and
\* dynamodb.NewImage.environment.S equal to the deployment's environment
FilterInsertEnv(rec) ==
  /\ rec.eventName = "INSERT"
  /\ HasAttr(rec, "NewImage")
  /\ HasAttr(rec.NewImage, "environment")
  /\ rec.NewImage.environment = ENVIRONMENT

\* The exported handler takes any DynamoDBStreamEvent: "unfiltered" is the
\* handler invoked with every record of the shard, as without FilterCriteria.
TtsFilter(sv, rec) ==
  IF sv = "unfiltered" THEN TRUE
  ELSE IF sv = "insertOnly" THEN FilterInsertOnly(rec) ELSE FilterInsertEnv(rec)

\* filterCriteria of AiEmailClientPipe: eventName INSERT and
\* dynamodb.NewImage.entity.S equal to "EMAIL"
PipeFilter(rec) ==
  /\ rec.eventName = "INSERT"
  /\ HasAttr(rec, "NewImage")
  /\ HasAttr(rec.NewImage, "entity")
  /\ rec.NewImage.entity = "EMAIL"

\* classify(ChangeEvent): the targets whose filter admits the record
Classify(sv, rec) ==
  (IF TtsFilter(sv, rec) THEN {"tts"} ELSE {}) \cup
  (IF PipeFilter(rec) THEN {"notification"} ELSE {})

\* ---- event source settings ----------------------------------------------
Unlimited == -1
TtsBatchSize(sv) == IF sv = "insertEnv" THEN 10 ELSE 100
RetryAttempts(sv) == IF sv = "insertEnv" THEN 3 ELSE Unlimited
PipeBatchSize == 3

\* ---- recordHandler, step by step -----------------------------------------
\* newImage.aiInsights?.M?.summary?.S
SummaryText(img) ==
  IF HasAttr(img, "aiInsights") /\ HasAttr(img.aiInsights, "summary")
  THEN img.aiInsights.summary ELSE ""

\* a handler that takes the deployment's environment for the tenant
Tenant_Deployment(img) == ENVIRONMENT

\* newImage.tenantId?.S || newImage.environment?.S || ENVIRONMENT
Tenant(img) ==
  IF HasAttr(img, "tenantId") /\ img.tenantId # "" THEN img.tenantId
  ELSE IF HasAttr(img, "environment") /\ img.environment # "" THEN img.environment
  ELSE ENVIRONMENT

\* VOICE_MAPPING[tenant] || VOICE_MAPPING.dev; the other versions use Joanna
VoiceMapping(tenant) ==
  IF tenant = "staging" THEN "Matthew" ELSE "Joanna"
Voice(hv, img) == IF hv = "multitenant" THEN VoiceMapping(Tenant(img)) ELSE "Joanna"

\* Position of a record's handler: pc is where it waits, id the identifier
\* uuid() gave it (0 before), err the message of the error it threw.
TaskAt(pc, id, err) == [pc |-> pc, id |-> id, err |-> err]

\* a handler that does not check the summary text
Validate_NoSummaryCheck(rec) ==
  IF ~HasAttr(rec, "NewImage") THEN TaskAt("done", 0, "") ELSE TaskAt("polly", 0, "")

\* a handler that treats a record without NewImage as an error
Validate_ThrowsWithoutImage(rec) ==
  IF ~HasAttr(rec, "NewImage") THEN TaskAt("failed", 0, "No new image")
  ELSE IF SummaryText(rec.NewImage) = "" THEN TaskAt("failed", 0, "Missing summary text")
  ELSE TaskAt("polly", 0, "")

\* a handler that writes the reference before it synthesizes and uploads
Validate_LinkFirst(rec) ==
  IF ~HasAttr(rec, "NewImage") THEN TaskAt("done", 0, "")
  ELSE IF SummaryText(rec.NewImage) = "" THEN TaskAt("failed", 0, "Missing summary text")
  ELSE TaskAt("ddb", 0, "")

\* The synchronous prefix of recordHandler, up to the first await.
Validate(rec) ==
  IF ~HasAttr(rec, "NewImage") THEN TaskAt("done", 0, "")
  ELSE IF SummaryText(rec.NewImage) = "" THEN TaskAt("failed", 0, "Missing summary text")
  ELSE TaskAt("polly", 0, "")

\* a multitenant handler that leaves the tenant out of the key
ArtifactKey_NoTenant(hv, img, id) == [prefix |-> "audio", id |-> id]

\* a handler that names the artifact after the record instead of calling uuid()
ArtifactKey_PerRecord(hv, img, id) ==
  IF hv = "multitenant"
  THEN [prefix |-> "audio", tenant |-> Tenant(img), id |-> 0]
  ELSE [prefix |-> "audio", id |-> 0]

\* `audio/${tenant}/${uuid()}.mp3` and `audio/${uuid()}.mp3`
ArtifactKey(hv, img, id) ==
  IF hv = "multitenant"
  THEN [prefix |-> "audio", tenant |-> Tenant(img), id |-> id]
  ELSE [prefix |-> "audio", id |-> id]

\* what Polly synthesizes is determined by the text and the voice
Synthesize(text, voice) == [text |-> text, voice |-> voice]

\* the object PutObjectCommand stores
ArtifactObject(hv, img) ==
  [body |-> Synthesize(SummaryText(img), Voice(hv, img)), contentType |-> "audio/mpeg"]

\* a handler that calls uuid() again when it builds the URL
AudioUrl_OtherKey(hv, key) ==
  [scheme |-> IF hv = "presigned" THEN "https" ELSE "s3",
   bucket |-> BUCKET_NAME, key |-> [key EXCEPT !.id = @ + 1]]

\* `s3://${BUCKET_NAME}/${key}`, or the presigned GetObject URL of the key
AudioUrl(hv, key) ==
  IF hv = "presigned"
  THEN [scheme |-> "https", bucket |-> BUCKET_NAME, key |-> key, expiresIn |-> 604800]
  ELSE [scheme |-> "s3", bucket |-> BUCKET_NAME, key |-> key]

\* ---- UpdateItem: SET aiInsights.summaryAudioUrl = :u ----------------------
\* ConditionExpression attribute_exists(PK) AND attribute_exists(SK), which
\* only the multitenant version sets
ConditionHolds(hv, tbl, k) == hv = "multitenant" => k \in DOMAIN tbl

\* an update that creates what it does not find
PathValid_Upsert(tbl, k) == TRUE

\* The document path aiInsights.summaryAudioUrl can be set only in an item
\* that has the map aiInsights; an absent item has no attribute at all.
PathValid(tbl, k) == k \in DOMAIN tbl /\ HasAttr(tbl[k], "aiInsights")

UpdateSucceeds(hv, tbl, k) == ConditionHolds(hv, tbl, k) /\ PathValid(tbl, k)

SetAttr(m, a, v) == [x \in DOMAIN m \cup {a} |-> IF x = a THEN v ELSE m[x]]

\* an update that replaces the whole map: SET aiInsights = {summaryAudioUrl}
SetSummaryAudioUrl_ReplacesMap(item, url) ==
  SetAttr(item, "aiInsights", [summaryAudioUrl |-> url])

SetSummaryAudioUrl(item, url) ==
  SetAttr(item, "aiInsights",
          SetAttr(IF HasAttr(item, "aiInsights") THEN item.aiInsights ELSE <<>>,
                  "summaryAudioUrl", url))

\* the table after the write took effect
UpdateItem(tbl, k, url) ==
  (k :> SetSummaryAudioUrl(IF k \in DOMAIN tbl THEN tbl[k] ELSE <<>>, url)) @@ tbl

\* ---- processPartialResponse ----------------------------------------------
Terminal == {"done", "failed"}

\* every record handler of the batch has settled (Promise.all of the batch)
BatchSettled(b, t) == \A i \in b : t[i].pc \in Terminal

\* a processor that swallows the errors of the record handlers
ProcessPartialResponse_NoFailures(b, t) ==
  [kind |-> "response", batchItemFailures |-> {}]

\* a processor that reports the whole batch as soon as one record failed
ProcessPartialResponse_AllOrNothing(b, t) ==
  LET F == {i \in b : t[i].pc = "failed"}
  IN IF F = b
     THEN [kind |-> "error", batchItemFailures |-> {}]
     ELSE [kind |-> "response", batchItemFailures |-> IF F = {} THEN {} ELSE b]

\* The batch response, or the FullBatchFailureError thrown when every record
\* of the batch failed.
ProcessPartialResponse(b, t) ==
  LET F == {i \in b : t[i].pc = "failed"}
  IN IF F = b
     THEN [kind |-> "error", batchItemFailures |-> {}]
     ELSE [kind |-> "response", batchItemFailures |-> F]

\* ---- metrics of the multitenant handler ------------------------------------
NoMetrics == <<>>

\* metrics.addMetric(name, "Count", n): the values of a name add up
AddMetric(m, name, n) ==
  IF name \in DOMAIN m THEN [m EXCEPT ![name] = @ + n] ELSE (name :> n) @@ m

\* only convertSummary.ts of part_002 emits metrics
EmitsMetrics(hv) == hv = "multitenant"

\* the catch block of recordHandler, after the metric of the throw itself
CountError(m, err) ==
  LET m1 == IF err = "Missing summary text" THEN AddMetric(m, "MissingSummaryErrors", 1)
            ELSE IF err = "Polly returned an empty AudioStream"
                 THEN AddMetric(m, "PollyErrors", 1)
            ELSE m
  IN AddMetric(m1, "ProcessingErrors", 1)

\* a record handler throws after its first await
RecordFailed(hv, m, err) == IF EmitsMetrics(hv) THEN CountError(m, err) ELSE m

\* the success metrics of recordHandler
CountSuccess(m, tenant) ==
  AddMetric(AddMetric(m, "SummariesProcessed", 1), "SummariesProcessed_" \o tenant, 1)

\* the metrics the record handlers add in their synchronous prefixes, after
\* the BatchSize metric of handler
StartMetrics(tasks) ==
  LET missing == Cardinality({i \in DOMAIN tasks : tasks[i].err = "Missing summary text"})
      failed == Cardinality({i \in DOMAIN tasks : tasks[i].pc = "failed"})
      m0 == AddMetric(NoMetrics, "BatchSize", Cardinality(DOMAIN tasks))
      m1 == IF missing > 0 THEN AddMetric(m0, "MissingSummaryErrors", missing) ELSE m0
  IN IF failed > 0 THEN AddMetric(m1, "ProcessingErrors", failed) ELSE m1

\* logger.appendKeys({ tenant }) on the logger of the module: the key of the
\* record handler that started last stays
AppendedTenant(recs, sel, prev) ==
  LET S == {i \in sel : HasAttr(recs[i], "NewImage")}
  IN IF S = {} THEN prev
     ELSE Tenant(recs[CHOOSE i \in S : \A j \in S : j <= i].NewImage)

\* a handler that takes every record of the batch for a success
SuccessCount_AllRecords(n, f) == n

\* successCount of handler: Records.length minus the failures, if there are any
SuccessCount(n, f) == IF f # 0 THEN n - f ELSE n

\* the metrics handler adds once processPartialResponse returned or threw
HandlerMetrics(m, n, res) ==
  IF res.kind = "response"
  THEN LET f == Cardinality(res.batchItemFailures)
           m1 == AddMetric(m, "SuccessfullyProcessed", SuccessCount(n, f))
       IN IF f # 0 THEN AddMetric(m1, "FailedRecords", f) ELSE m1
  ELSE AddMetric(m, "BatchProcessingErrors", 1)

\* the sendEmail resolver is idle
NoMail == [pc |-> "idle"]

\* ---- initial state --------------------------------------------------------
NoResult ==
  [kind |-> "none", batchItemFailures |-> {}, records |-> {}, settled |-> {},
   failed |-> {}, errors |-> <<>>]

\* a consumer that replays the shard from its oldest record
StartingPosition_TrimHorizon(s) == 0

\* startingPosition LATEST: a consumer starts after the last record the
\* shard holds when it is activated
StartingPosition(s) == Len(s)

\* What the table went through before the consumers were activated.
NoHistory == [table |-> <<>>, stream |-> <<>>]
OneEmailBefore ==
  [table |-> ("k1" :> EmailItem(ENVIRONMENT, WithSummary)),
   stream |-> <<ChangeRecord("INSERT", "k1", EmailItem(ENVIRONMENT, WithSummary))>>]

InitFrom(h, sources) ==
  /\ handlerVariant \in HandlerVariants
  /\ sourceVariant \in sources
  /\ table = h.table
  /\ stream = h.stream
  /\ envOps = Len(h.stream)
  /\ checkpoint = StartingPosition(h.stream)
  /\ windowEnd = 0
  /\ attempts = 0
  /\ batch = {}
  /\ task = <<>>
  /\ artifacts = <<>>
  /\ nextUuid = 1
  /\ deliveries = [i \in 1 .. Len(h.stream) |-> 0]
  /\ writeLog = {}
  /\ lastResult = NoResult
  /\ discarded = {}
  /\ pipeCheckpoint = StartingPosition(h.stream)
  /\ bus = {}
  /\ eventLog = {}
  /\ mutations = {}
  /\ activatedAt = Len(h.stream)
  /\ metrics = NoMetrics
  /\ published = NoMetrics
  /\ loggerTenant = ""
  /\ mail = NoMail

InitAt(h) == InitFrom(h, SourceVariants)

Init == InitAt(NoHistory)

\* ---- the environment mutates the table -----------------------------------
\* The email processor (or createUser) creates an item under a new key: the
\* stream gets an INSERT record with the item as NewImage.  Keys are
\* interchangeable, so a key that was never used is taken in KeyOrder.
PutItem(k, item) ==
  /\ envOps < MaxEvents
  /\ k \notin DOMAIN table
  /\ \/ \E i \in 1 .. Len(stream) : stream[i].key = k
     \/ \A j \in Keys : (\A i \in 1 .. Len(stream) : stream[i].key # j)
                            => KeyOrder(k) <= KeyOrder(j)
  /\ envOps' = envOps + 1
  /\ table' = (k :> item) @@ table
  /\ stream' = Append(stream,
        ChangeRecord("INSERT", k, item))
  /\ deliveries' = Append(deliveries, 0)
  /\ UNCHANGED <<handlerVariant, sourceVariant, checkpoint, windowEnd, attempts,
                 batch, task, artifacts, nextUuid, writeLog, lastResult,
                 discarded, pipeCheckpoint, bus,
                 eventLog, mutations, activatedAt,
                 metrics, published, loggerTenant, mail>>

\* Retention (TTL) deletes an item: REMOVE, without NewImage.
DeleteItem(k) ==
  /\ envOps < MaxEvents
  /\ k \in DOMAIN table
  /\ envOps' = envOps + 1
  /\ table' = [x \in DOMAIN table \ {k} |-> table[x]]
  /\ stream' = Append(stream, RemoveRecord(k))
  /\ deliveries' = Append(deliveries, 0)
  /\ UNCHANGED <<handlerVariant, sourceVariant, checkpoint, windowEnd, attempts,
                 batch, task, artifacts, nextUuid, writeLog, lastResult,
                 discarded, pipeCheckpoint, bus,
                 eventLog, mutations, activatedAt,
                 metrics, published, loggerTenant, mail>>

\* ---- the TTS event source polls the shard and invokes the handler --------
MinOf(a, b) == IF a <= b THEN a ELSE b

\* the stream indexes of the next batch: a fresh window of at most batchSize
\* records after the checkpoint, or the rest of the window being retried
Window ==
  IF attempts > 0 THEN checkpoint + 1 .. windowEnd
  ELSE checkpoint + 1 .. MinOf(checkpoint + TtsBatchSize(sourceVariant), Len(stream))

WindowEnd ==
  IF attempts > 0 THEN windowEnd
  ELSE MinOf(checkpoint + TtsBatchSize(sourceVariant), Len(stream))

\* Records the filter rejects are passed over; the others are handed to the
\* handler, which starts one recordHandler per record (each runs up to its
\* first await before the next one starts).
Invoke ==
  /\ batch = {}
  /\ checkpoint < Len(stream)
  /\ LET sel == {i \in Window : TtsFilter(sourceVariant, stream[i])}
     IN IF sel = {}
        THEN /\ checkpoint' = WindowEnd
             /\ UNCHANGED <<windowEnd, batch, task, deliveries, metrics, loggerTenant>>
        ELSE /\ \A i \in sel : deliveries[i] < MaxDeliveries
             /\ batch' = sel
             /\ task' = [i \in sel |-> Validate(stream[i])]
             /\ windowEnd' = WindowEnd
             /\ deliveries' = [i \in DOMAIN deliveries |->
                                 IF i \in sel THEN deliveries[i] + 1 ELSE deliveries[i]]
             /\ metrics' = IF EmitsMetrics(handlerVariant)
                            THEN StartMetrics(task') ELSE NoMetrics
             /\ loggerTenant' = IF handlerVariant = "multitenant"
                                 THEN AppendedTenant(stream, sel, loggerTenant)
                                 ELSE loggerTenant
             /\ UNCHANGED checkpoint
  /\ lastResult' = NoResult
  /\ published' = NoMetrics
  /\ UNCHANGED <<handlerVariant, sourceVariant, table, stream, envOps, attempts,
                 artifacts, nextUuid, writeLog, discarded, pipeCheckpoint, bus,
                 eventLog, mutations, activatedAt, mail>>

\* ---- recordHandler resumes after each await --------------------------------
\* polly.send returns: an audio stream, no audio stream, or it throws
PollyRespond(i, outcome) ==
  /\ i \in batch
  /\ task[i].pc = "polly"
  /\ \/ /\ outcome = "audio"
        /\ nextUuid <= MaxUuid
        /\ task' = [task EXCEPT ![i] = TaskAt("s3", nextUuid, "")]
        /\ nextUuid' = nextUuid + 1
        /\ UNCHANGED metrics
     \/ /\ outcome = "empty"
        /\ task' = [task EXCEPT ![i] = TaskAt("failed", 0, "Polly returned an empty AudioStream")]
        /\ metrics' = RecordFailed(handlerVariant, metrics, task'[i].err)
        /\ UNCHANGED nextUuid
     \/ /\ outcome = "error"
        /\ task' = [task EXCEPT ![i] = TaskAt("failed", 0, "Polly error")]
        /\ metrics' = RecordFailed(handlerVariant, metrics, task'[i].err)
        /\ UNCHANGED nextUuid
  /\ UNCHANGED <<handlerVariant, sourceVariant, table, stream, envOps, checkpoint,
                 windowEnd, attempts, batch, artifacts, deliveries, writeLog,
                 lastResult, discarded, pipeCheckpoint, bus,
                 eventLog, mutations, activatedAt, published, loggerTenant, mail>>

\* a handler that goes on to the update when the upload threw
S3Respond_LinksOnFailure(i, ok) ==
  /\ i \in batch
  /\ task[i].pc = "s3"
  /\ IF ok
     THEN artifacts' =
               (ArtifactKey(handlerVariant, stream[i].NewImage, task[i].id)
                  :> ArtifactObject(handlerVariant, stream[i].NewImage)) @@ artifacts
     ELSE UNCHANGED artifacts
  /\ task' = [task EXCEPT ![i].pc = "ddb"]
  /\ UNCHANGED <<handlerVariant, sourceVariant, table, stream, envOps, checkpoint,
                 windowEnd, attempts, batch, nextUuid, deliveries, writeLog,
                 lastResult, discarded, pipeCheckpoint, bus,
                 eventLog, mutations, activatedAt, metrics, published,
                 loggerTenant, mail>>

\* s3.send(PutObjectCommand) returns or throws
S3Respond(i, ok) ==
  /\ i \in batch
  /\ task[i].pc = "s3"
  /\ IF ok
     THEN /\ artifacts' =
               (ArtifactKey(handlerVariant, stream[i].NewImage, task[i].id)
                  :> ArtifactObject(handlerVariant, stream[i].NewImage)) @@ artifacts
          /\ task' = [task EXCEPT ![i].pc = "ddb"]
          /\ UNCHANGED metrics
     ELSE /\ task' = [task EXCEPT ![i] = TaskAt("failed", 0, "S3 error")]
          /\ metrics' = RecordFailed(handlerVariant, metrics, task'[i].err)
          /\ UNCHANGED artifacts
  /\ UNCHANGED <<handlerVariant, sourceVariant, table, stream, envOps, checkpoint,
                 windowEnd, attempts, batch, nextUuid, deliveries, writeLog,
                 lastResult, discarded, pipeCheckpoint, bus,
                 eventLog, mutations, activatedAt, published, loggerTenant, mail>>

\* a handler that deletes the artifact it uploaded when the update fails
DdbRespond_DeletesOrphan(i, ok) ==
  /\ i \in batch
  /\ task[i].pc = "ddb"
  /\ LET k == stream[i].key
         url == AudioUrl(handlerVariant,
                         ArtifactKey(handlerVariant, stream[i].NewImage, task[i].id))
     IN IF ok /\ UpdateSucceeds(handlerVariant, table, k)
        THEN /\ table' = UpdateItem(table, k, url)
             /\ stream' = Append(stream, ChangeRecord("MODIFY", k, table'[k]))
             /\ deliveries' = Append(deliveries, 0)
             /\ writeLog' = writeLog \cup {[seq |-> i, key |-> k, url |-> url]}
             /\ task' = [task EXCEPT ![i].pc = "done"]
             /\ UNCHANGED artifacts
             /\ metrics' = IF EmitsMetrics(handlerVariant)
                            THEN CountSuccess(metrics, Tenant(stream[i].NewImage))
                            ELSE metrics
        ELSE /\ task' = [task EXCEPT ![i] =
                  TaskAt("failed", 0,
                         IF ok THEN "Update rejected" ELSE "DynamoDB error")]
             /\ metrics' = RecordFailed(handlerVariant, metrics, task'[i].err)
             /\ artifacts' = [x \in DOMAIN artifacts \
                                    {ArtifactKey(handlerVariant, stream[i].NewImage,
                                                 task[i].id)} |-> artifacts[x]]
             /\ UNCHANGED <<table, stream, deliveries, writeLog>>
  /\ UNCHANGED <<handlerVariant, sourceVariant, envOps, checkpoint, windowEnd,
                 attempts, batch, nextUuid, lastResult, discarded,
                 pipeCheckpoint, bus,
                 eventLog, mutations, activatedAt, published, loggerTenant, mail>>

\* docClient.send(UpdateCommand) returns or throws; a write that takes effect
\* is itself a MODIFY record of the stream
DdbRespond(i, ok) ==
  /\ i \in batch
  /\ task[i].pc = "ddb"
  /\ LET k == stream[i].key
         url == AudioUrl(handlerVariant,
                         ArtifactKey(handlerVariant, stream[i].NewImage, task[i].id))
     IN IF ok /\ UpdateSucceeds(handlerVariant, table, k)
        THEN /\ table' = UpdateItem(table, k, url)
             /\ stream' = Append(stream, ChangeRecord("MODIFY", k, table'[k]))
             /\ deliveries' = Append(deliveries, 0)
             /\ writeLog' = writeLog \cup {[seq |-> i, key |-> k, url |-> url]}
             /\ task' = [task EXCEPT ![i].pc = "done"]
             /\ metrics' = IF EmitsMetrics(handlerVariant)
                            THEN CountSuccess(metrics, Tenant(stream[i].NewImage))
                            ELSE metrics
        ELSE /\ task' = [task EXCEPT ![i] =
                  TaskAt("failed", 0,
                         IF ok THEN "Update rejected" ELSE "DynamoDB error")]
             /\ metrics' = RecordFailed(handlerVariant, metrics, task'[i].err)
             /\ UNCHANGED <<table, stream, deliveries, writeLog>>
  /\ UNCHANGED <<handlerVariant, sourceVariant, envOps, checkpoint, windowEnd,
                 attempts, batch, artifacts, nextUuid, lastResult, discarded,
                 pipeCheckpoint, bus,
                 eventLog, mutations, activatedAt, published, loggerTenant, mail>>

\* ---- the invocation ends and the event source reacts ---------------------
\* reportBatchItemFailures: where the event source resumes after a failed
\* invocation.  A response with failures moves the checkpoint to just before
\* the lowest failed sequence token; a thrown error leaves it where it was.
\* an event source that ignores the failure list and retries the whole batch
RetryCheckpoint_WholeBatch(res, cp) == cp

\* an event source that gives a batch up as soon as the function failed
RetryCheckpoint_SkipOnError(res, cp) ==
  IF res.kind = "error" THEN windowEnd ELSE Min(res.batchItemFailures) - 1

\* A function error (the handler threw, timed out or crashed) is retried from
\* the checkpoint, like a response that lists the whole batch.
RetryCheckpoint(res, cp) ==
  IF res.kind = "error" THEN cp ELSE Min(res.batchItemFailures) - 1

\* an event source that never retries
RetriesExhausted_Always(sv, n) == TRUE

\* retryAttempts: the failed invocation was the last one allowed
RetriesExhausted(sv, n) == RetryAttempts(sv) # Unlimited /\ n + 1 > RetryAttempts(sv)

\* A response without failures passes the window.  Otherwise the records from
\* the retry checkpoint on are delivered again, unless the retries ran out:
\* then they are dropped (no onFailure destination is configured).
React(res) ==
  LET retry == RetryCheckpoint(res, checkpoint)
  IN IF res.kind = "response" /\ res.batchItemFailures = {}
     THEN /\ checkpoint' = windowEnd
          /\ attempts' = 0
          /\ UNCHANGED discarded
     ELSE IF RetriesExhausted(sourceVariant, attempts)
     THEN /\ checkpoint' = windowEnd
          /\ attempts' = 0
          /\ discarded' = discarded \cup {i \in batch : i > retry}
     ELSE /\ checkpoint' = retry
          /\ attempts' = IF RetryAttempts(sourceVariant) = Unlimited
                         THEN 1 ELSE attempts + 1
          /\ UNCHANGED discarded

Finish ==
  /\ batch # {}
  /\ BatchSettled(batch, task)
  /\ LET res == ProcessPartialResponse(batch, task)
         F == {i \in batch : task[i].pc = "failed"}
     IN /\ lastResult' = [kind |-> res.kind,
                          batchItemFailures |-> res.batchItemFailures,
                          records |-> batch,
                          settled |-> {i \in batch : task[i].pc \in Terminal},
                          failed |-> F,
                          errors |-> [i \in F |-> task[i].err]]
        /\ React(res)
        /\ published' = IF EmitsMetrics(handlerVariant)
                         THEN HandlerMetrics(metrics, Cardinality(batch), res)
                         ELSE NoMetrics
  /\ metrics' = NoMetrics
  /\ batch' = {}
  /\ task' = <<>>
  /\ UNCHANGED <<handlerVariant, sourceVariant, table, stream, envOps, windowEnd,
                 artifacts, nextUuid, deliveries, writeLog, pipeCheckpoint, bus,
                 eventLog, mutations, activatedAt, loggerTenant, mail>>

\* The invocation dies before the handler returns (the function's timeout of
\* 2 minutes, or the runtime crashing): the record handlers stop where they
\* are and the event source sees a function error.
Crash ==
  /\ batch # {}
  /\ ~BatchSettled(batch, task)
  /\ lastResult' = [NoResult EXCEPT !.kind = "crash", !.records = batch]
  /\ React([kind |-> "error", batchItemFailures |-> {}])
  /\ metrics' = NoMetrics
  /\ published' = NoMetrics
  /\ batch' = {}
  /\ task' = <<>>
  /\ UNCHANGED <<handlerVariant, sourceVariant, table, stream, envOps, windowEnd,
                 artifacts, nextUuid, deliveries, writeLog, pipeCheckpoint, bus,
                 eventLog, mutations, activatedAt, loggerTenant, mail>>

\* ---- the sendEmail resolver -------------------------------------------------
\* the arguments of the mutation; "" stands for a subject or body left out
Addresses == {"ann@example.com", "bob@example.com"}
SendEmailInputs ==
  [from : Addresses, to : SUBSET Addresses,
   subject : {"", "Hello"}, plainBody : {"", "See you at 10"}]

\* new SendEmailCommand({ Source, Destination, Message })
SendEmailCommand(input) ==
  [Source |-> input.from, ToAddresses |-> input.to,
   Subject |-> input.subject, Text |-> input.plainBody]

\* what ses.send can answer: a message id, or an error (the request is
\* rejected, or the service cannot be reached); a request without
\* destination or without subject is never accepted
SesOutcomes(cmd) ==
  IF cmd.ToAddresses = {} \/ cmd.Subject = ""
  THEN {"rejected", "unavailable"}
  ELSE {"accepted", "rejected", "unavailable"}

\* a handler that lets the error of the transport propagate
SendEmailReturn_Rethrows(outcome) ==
  IF outcome = "accepted" THEN [kind |-> "return", value |-> TRUE]
  ELSE [kind |-> "throw", value |-> FALSE]

\* try { await ses.send(...); return true } catch { return false }
SendEmailReturn(outcome) == [kind |-> "return", value |-> outcome = "accepted"]

otherVars == <<handlerVariant, sourceVariant, table, stream, envOps, checkpoint,
               windowEnd, attempts, batch, task, artifacts, nextUuid, deliveries,
               writeLog, lastResult, discarded, pipeCheckpoint, bus, eventLog,
               mutations, activatedAt, metrics, published, loggerTenant>>

\* the resolver is invoked and awaits ses.send
SendEmail(input) ==
  /\ mail.pc # "sending"
  /\ mail' = [pc |-> "sending", input |-> input, command |-> SendEmailCommand(input)]
  /\ UNCHANGED otherVars

\* ses.send returns or throws, and the handler ends
SesRespond(outcome) ==
  /\ mail.pc = "sending"
  /\ outcome \in SesOutcomes(mail.command)
  /\ mail' = [pc |-> "ended", input |-> mail.input, command |-> mail.command,
              outcome |-> outcome, result |-> SendEmailReturn(outcome)]
  /\ UNCHANGED otherVars

\* ---- the pipe puts the records its filter admits on the event bus --------
\* a pipe that reads behind the cursor of the TTS event source
PipeWindowEnd_SharedCursor == MinOf(pipeCheckpoint + PipeBatchSize, checkpoint)

\* the pipe polls the shard with its own iterator, batchSize records at most
PipeWindowEnd == MinOf(pipeCheckpoint + PipeBatchSize, Len(stream))

\* targetParameters: source, detailType and inputTemplate {"email": NewImage}
PipeEvent(i) ==
  [seq |-> i, source |-> "ai.email", detailType |-> "NewEmailCreated",
   detail |-> [email |-> stream[i].NewImage]]

PipeDeliver ==
  /\ pipeCheckpoint < PipeWindowEnd
  /\ LET last == PipeWindowEnd
         sel == {i \in pipeCheckpoint + 1 .. last : PipeFilter(stream[i])}
     IN /\ bus' = bus \cup {PipeEvent(i) : i \in sel}
        /\ pipeCheckpoint' = last
  /\ UNCHANGED <<handlerVariant, sourceVariant, table, stream, envOps, checkpoint,
                 windowEnd, attempts, batch, task, artifacts, nextUuid, deliveries,
                 writeLog, lastResult, discarded, eventLog, mutations, activatedAt,
                 metrics, published, loggerTenant, mail>>

\* ---- the event bus evaluates its rules -------------------------------------
\* eventPattern of the rule NotifyNewEmailCreated
NotifyRulePattern == [source |-> {"email.created"}, detailType |-> {"email.new"}]
RuleMatches(pattern, ev) ==
  ev.source \in pattern.source /\ ev.detailType \in pattern.detailType

\* inputTransformer: userId from $.detail.userId, email from $.detail.email;
\* a path that selects nothing yields the empty string
InputTransformer(ev) ==
  [userId |-> IF HasAttr(ev.detail, "userId") THEN ev.detail.userId ELSE "",
   email |-> IF HasAttr(ev.detail, "email") THEN ev.detail.email ELSE ""]

\* the notifyNewEmail mutation the rule's target sends for an event
NotifyNewEmail(ev) ==
  [seq |-> ev.seq, userId |-> InputTransformer(ev).userId,
   email |-> InputTransformer(ev).email]

\* The bus hands an event to every rule that matches it: the catch-all rule
\* (source prefix "") logs it, the notification rule sends the mutation.
RuleDispatch(ev) ==
  /\ ev \in bus \ eventLog
  /\ eventLog' = eventLog \cup {ev}
  /\ mutations' = mutations \cup
       (IF RuleMatches(NotifyRulePattern, ev) THEN {NotifyNewEmail(ev)} ELSE {})
  /\ UNCHANGED <<handlerVariant, sourceVariant, table, stream, envOps, checkpoint,
                 windowEnd, attempts, batch, task, artifacts, nextUuid, deliveries,
                 writeLog, lastResult, discarded, pipeCheckpoint, bus, activatedAt,
                 metrics, published, loggerTenant, mail>>

\* the steps of the TTS event source and of the TTS handler
HandlerStep ==
  \/ Invoke
  \/ \E i \in batch, o \in {"audio", "empty", "error"} : PollyRespond(i, o)
  \/ \E i \in batch, ok \in BOOLEAN : S3Respond(i, ok)
  \/ \E i \in batch, ok \in BOOLEAN : DdbRespond(i, ok)
  \/ Finish

\* the table with the emails of this deployment, and the TTS consumer
Next ==
  \/ \E k \in Keys, item \in OwnEmails : PutItem(k, item)
  \/ \E k \in Keys : DeleteItem(k)
  \/ HandlerStep

Spec == Init /\ [][Next]_vars

\* both targets of the stream, the TTS consumer and the pipe, with every
\* kind of item in the table
InitFanOut == Init /\ handlerVariant = "multitenant"
NextFanOut ==
  \/ \E k \in Keys, item \in Items : PutItem(k, item)
  \/ \E k \in Keys : DeleteItem(k)
  \/ HandlerStep
  \/ PipeDeliver
FanOutSpec == InitFanOut /\ [][NextFanOut]_vars

\* The multitenant handler behind the second event source, with the progress
\* the platform guarantees: a pending batch is handed to the handler, every
\* call of the handler returns or throws, and the invocation ends.
InitLive == Init /\ handlerVariant = "multitenant" /\ sourceVariant = "insertEnv"
LiveSpec == InitLive /\ [][Next]_vars /\ WF_vars(HandlerStep)

\* Every version of the handler, handed every record of the shard.
\* The handler's own write-backs are records of the shard too, and here they
\* are delivered to it: the shard is explored up to MaxEvents records.
InitHandler == InitFrom(NoHistory, {"unfiltered"})
NextHandler ==
  /\ \/ \E k \in Keys, item \in OwnEmails : PutItem(k, item)
     \/ \E k \in Keys : DeleteItem(k)
     \/ HandlerStep
  /\ Len(stream') <= MaxEvents
HandlerSpec == InitHandler /\ [][NextHandler]_vars

\* The multitenant handler behind either event source, with invocations that
\* may die before the handler returns.
InitCrash == Init /\ handlerVariant = "multitenant"
NextCrash == Next \/ Crash
CrashSpec == InitCrash /\ [][NextCrash]_vars

\* The multitenant handler behind the second event source, on a table that
\* receives emails of several tenants and loses none.
InitTenant == Init /\ handlerVariant = "multitenant" /\ sourceVariant = "insertEnv"
NextTenant ==
  \/ \E k \in Keys, item \in TenantEmails : PutItem(k, item)
  \/ HandlerStep
TenantSpec == InitTenant /\ [][NextTenant]_vars

\* The sendEmail resolver on its own, invoked with every input.
InitMail == Init /\ handlerVariant = "multitenant" /\ sourceVariant = "insertEnv"
NextMail ==
  \/ \E input \in SendEmailInputs : SendEmail(input)
  \/ \E outcome \in {"accepted", "rejected", "unavailable"} : SesRespond(outcome)
MailSpec == InitMail /\ [][NextMail]_vars

\* Both targets (the multitenant handler behind the second event source, and
\* the pipe) and the rules of the bus, started on a table that already holds
\* an email.  The pipe and the bus make progress whatever the TTS
\* consumer does: nothing is assumed about the steps of the handler.
InitPipe ==
  InitAt(OneEmailBefore) /\ handlerVariant = "multitenant" /\ sourceVariant = "insertEnv"
NextPipe ==
  \/ \E k \in Keys, item \in OwnEmails : PutItem(k, item)
  \/ \E k \in Keys : DeleteItem(k)
  \/ HandlerStep
  \/ PipeDeliver
  \/ \E ev \in bus : RuleDispatch(ev)
PipeSpec ==
  /\ InitPipe /\ [][NextPipe]_vars
  /\ WF_vars(PipeDeliver) /\ WF_vars(\E ev \in bus : RuleDispatch(ev))

TypeOK ==
  /\ checkpoint \in 0 .. Len(stream)
  /\ pipeCheckpoint \in 0 .. Len(stream)
  /\ Len(deliveries) = Len(stream)
  /\ batch \subseteq 1 .. Len(stream)
  /\ DOMAIN task = batch

\* ==== properties ============================================================
Seqs == 1 .. Len(stream)
IsInsert(rec) == rec.eventName = "INSERT"
IsEmail(rec) == HasAttr(rec, "NewImage") /\ HasAttr(rec.NewImage, "entity")
                /\ rec.NewImage.entity = "EMAIL"
OnBus(i) == \E e \in bus : e.seq = i

\* C1: a change record that is not an INSERT, or whose entity is not EMAIL,
\* is delivered neither to the TTS record handler nor to the event bus.
C1_OnlyEmailInsertsDelivered ==
  \A i \in Seqs :
    (~IsInsert(stream[i]) \/ ~IsEmail(stream[i])) => deliveries[i] = 0 /\ ~OnBus(i)

Stored(url) == url.bucket = BUCKET_NAME /\ url.key \in DOMAIN artifacts
Equivalent(u1, u2) ==
  Stored(u1) /\ Stored(u2) /\ artifacts[u1.key].body = artifacts[u2.key].body

InsightAttrs == {"summary", "category", "summaryAudioUrl"}

Idle == batch = {} /\ checkpoint = Len(stream)
C5_LastEventWins ==
  Idle =>
    \A k \in DOMAIN table :
      (HasAttr(table[k], "aiInsights") /\ HasAttr(table[k].aiInsights, "summaryAudioUrl")) =>
        \E w \in writeLog :
          /\ w.key = k
          /\ w.url = table[k].aiInsights.summaryAudioUrl
          /\ \A v \in writeLog : v.key = k => v.seq <= w.seq

\* C6 as stated: a record without summary text is never delivered a 4th time.
MissingSummary(i) ==
  HasAttr(stream[i], "NewImage") /\ SummaryText(stream[i].NewImage) = ""
C6_NoFourthDelivery ==
  \A i \in Seqs : MissingSummary(i) => deliveries[i] <= 3

\* An inserted email that carries summary text and no audio reference yet.
EmailWithSummary(i) ==
  /\ i \in Seqs
  /\ IsInsert(stream[i]) /\ IsEmail(stream[i])
  /\ SummaryText(stream[i].NewImage) # ""
  /\ ~HasAttr(stream[i].NewImage.aiInsights, "summaryAudioUrl")

\* The record of change record i was given a reference to an artifact that is
\* stored under a key scoped by the record's tenant.
Linked(i) ==
  \E w \in writeLog :
    /\ w.seq = i
    /\ Stored(w.url)
    /\ HasAttr(w.url.key, "tenant")
    /\ w.url.key.tenant = Tenant(stream[i].NewImage)

\* C7 as stated, in the form a finite run refutes: once the TTS event source
\* has passed an inserted email with summary text, the email has been linked
\* to a stored artifact under a tenant-scoped key.
C7_PassedMeansLinked ==
  \A i \in 1 .. checkpoint : EmailWithSummary(i) => Linked(i)

\* Change record i is linked, or was dropped after its last allowed delivery.
Settled(i) ==
  \/ Linked(i)
  \/ i \in discarded /\ deliveries[i] = RetryAttempts(sourceVariant) + 1

\* C7 amended: an inserted email with summary text that the event source's
\* filter admits is eventually linked to a stored artifact under a
\* tenant-scoped key, or dropped by the event source after its 4th failed
\* delivery.
\* The stream is append-only, so a state in which every admitted email so far
\* is settled settles each of them after the moment it was inserted.
C7_EventuallyLinkedOrDropped ==
  []<>(\A i \in Seqs :
         EmailWithSummary(i) /\ TtsFilter(sourceVariant, stream[i]) => Settled(i))

\* the record in the table carries the reference of a stored, tenant-scoped
\* artifact
C7_Witness ==
  \E i \in Seqs :
    /\ EmailWithSummary(i) /\ Linked(i)
    /\ stream[i].key \in DOMAIN table
    /\ HasAttr(table[stream[i].key].aiInsights, "summaryAudioUrl")
    /\ \E w \in writeLog : w.seq = i /\ w.url = table[stream[i].key].aiInsights.summaryAudioUrl

\* C8: in every version of the handler, an update that is answered while the
\* record is absent fails and leaves the table as it was.
C8_UpdateNeedsExistingRecord ==
  [][\A i \in batch :
       (task[i].pc = "ddb" /\ task'[i].pc # "ddb" /\ stream[i].key \notin DOMAIN table)
         => task'[i].pc = "failed" /\ table' = table /\ stream' = stream]_vars

\* a version without ConditionExpression had its update rejected for a record
\* that was deleted after the change record was written
C8_Witness ==
  /\ handlerVariant # "multitenant"
  /\ \E i \in batch :
       /\ task[i].err = "Update rejected"
       /\ stream[i].key \notin DOMAIN table

\* C9 as stated: a record without summary text is not delivered again after
\* its first delivery.
C9_MissingSummaryNotRetried ==
  \A i \in Seqs : MissingSummary(i) => deliveries[i] <= 1

\* C10 as stated: a record for which Polly returned no audio stream is listed
\* in the failure list of the batch response.
EmptyAudio == "Polly returned an empty AudioStream"
ttsVars == <<checkpoint, windowEnd, attempts, batch, task, artifacts, nextUuid,
             deliveries, writeLog, lastResult, discarded>>
pipeVars == <<pipeCheckpoint, bus>>

UploadKey(i) == ArtifactKey(handlerVariant, stream[i].NewImage, task[i].id)
Uploading(i) == i \in batch /\ task[i].pc = "s3"

\* C12: an upload in flight targets a storage key under which nothing is
\* stored and which no other upload in flight targets, so every upload of
\* every delivery creates a new object.
C12_FreshKeyPerUpload ==
  \A i \in batch :
    Uploading(i) =>
      /\ UploadKey(i) \notin DOMAIN artifacts
      /\ \A j \in batch \ {i} : Uploading(j) => UploadKey(j) # UploadKey(i)

\* a redelivered record uploads while the artifact of its earlier delivery is
\* stored
C12_Witness ==
  \E i \in batch :
    /\ Uploading(i) /\ deliveries[i] >= 2
    /\ \E k \in DOMAIN artifacts :
         artifacts[k] = ArtifactObject(handlerVariant, stream[i].NewImage) /\ k # UploadKey(i)

\* C13: a change record the shard held when the consumers were activated is
\* delivered neither to the TTS record handler nor to the event bus.
C13_NoReplayOnColdStart ==
  \A i \in 1 .. activatedAt : deliveries[i] = 0 /\ ~OnBus(i)

\* both consumers have passed the whole shard and delivered an email written
\* after activation; the email written before it was left alone
C13_Witness ==
  /\ activatedAt >= 1 /\ PipeFilter(stream[1]) /\ TtsFilter(sourceVariant, stream[1])
  /\ checkpoint = Len(stream) /\ pipeCheckpoint = Len(stream)
  /\ \E i \in Seqs : i > activatedAt /\ deliveries[i] > 0 /\ OnBus(i)

\* the running invocation ends in this step without a batch response
EndsWithoutResponse ==
  batch # {} /\ batch' = {} /\ lastResult'.kind \in {"error", "crash"}
NoResponse == lastResult.kind \in {"error", "crash"}

\* C14 as stated: when an invocation ends without a batch response, the
\* checkpoint does not advance, no record is dropped, and the next invocation
\* is handed every record of that batch again.
C14_NoResponseRedelivers ==
  /\ [][EndsWithoutResponse => checkpoint' = checkpoint /\ discarded' = discarded]_vars
  /\ [][(NoResponse /\ batch = {} /\ batch' # {}) => lastResult.records \subseteq batch']_vars

\* C14 amended: when an invocation ends without a batch response, the
\* checkpoint stays and the next invocation is handed the same batch, unless
\* that was the last delivery retryAttempts allows: then the batch, delivered
\* 4 times, is dropped and the checkpoint passes it.  The checkpoint never
\* passes a record the filter admits that was not delivered at least once.
C14_RedeliveredUntilExhausted ==
  /\ [][EndsWithoutResponse =>
          IF RetriesExhausted(sourceVariant, attempts)
          THEN /\ checkpoint' = windowEnd
               /\ discarded' = discarded \cup batch
               /\ \A i \in batch : deliveries[i] = RetryAttempts(sourceVariant) + 1
          ELSE checkpoint' = checkpoint /\ discarded' = discarded]_vars
  /\ [][(NoResponse /\ batch = {} /\ batch' # {}
           /\ \A i \in lastResult.records : i > checkpoint)
          => batch' = lastResult.records]_vars
  /\ [](\A i \in activatedAt + 1 .. checkpoint :
          TtsFilter(sourceVariant, stream[i]) => deliveries[i] >= 1)

\* a batch that was delivered again after a failed invocation ended without a
\* response once more, by the invocation dying, and is due again
C14_Witness ==
  /\ lastResult.kind = "crash"
  /\ \A i \in lastResult.records :
       deliveries[i] >= 2 /\ i > checkpoint /\ i \notin discarded

\* C15 as stated, in the form a finite run refutes: once the bus has evaluated
\* its rules for the event of an inserted EMAIL record, a notifyNewEmail
\* mutation carrying the record's after-image has been sent.
C15_InsertIsRepublished ==
  \A ev \in eventLog :
    PipeFilter(stream[ev.seq]) =>
      \E m \in mutations : m.seq = ev.seq /\ m.email = stream[ev.seq].NewImage

\* the records the filter admits among those this step moves the checkpoint
\* past
NewlyPassed == {i \in checkpoint + 1 .. checkpoint' : TtsFilter(sourceVariant, stream[i])}
Dropped(i) == i \in discarded /\ deliveries[i] = RetryAttempts(sourceVariant) + 1

\* C16 as stated: the checkpoint moves past an admitted record only in the
\* step in which the handler returns the batch's outcome list, and the record
\* is then reported as success or has exhausted its retries.
C16_AdvanceNeedsOutcomeList ==
  [][\A i \in NewlyPassed :
       /\ lastResult'.kind = "response" /\ i \in lastResult'.records
       /\ i \notin lastResult'.batchItemFailures \/ Dropped(i)']_vars

\* C16 amended: the checkpoint moves past an admitted record only in the step
\* that ends an invocation holding the record; either the handler returned an
\* outcome list that does not list the record, or the record has exhausted
\* its retries (4 deliveries) and is dropped, with or without an outcome list.
\* Every admitted record behind the checkpoint was written back or dropped.
C16_AdvanceNeedsSuccessOrExhaustion ==
  /\ [][\A i \in NewlyPassed :
          /\ batch # {} /\ batch' = {} /\ i \in lastResult'.records
          /\ \/ /\ lastResult'.kind = "response"
                /\ i \notin lastResult'.batchItemFailures
                /\ task[i].pc = "done"
             \/ Dropped(i)']_vars
  /\ [](\A i \in activatedAt + 1 .. checkpoint :
          TtsFilter(sourceVariant, stream[i]) =>
            (\E w \in writeLog : w.seq = i) \/ Dropped(i))

\* the handler threw on the last allowed delivery: the batch is passed and
\* dropped without an outcome list
C16_Witness ==
  /\ lastResult.kind = "error"
  /\ \A i \in lastResult.records : i <= checkpoint /\ Dropped(i)
  /\ \E i \in 1 .. checkpoint : \E w \in writeLog : w.seq = i

\* C17 as stated: a change record whose delivery has written summaryAudioUrl on
\* its email is never written back again by a further delivery.
C17_WrittenAtMostOnce ==
  [][\A w \in writeLog' \ writeLog : \A v \in writeLog : v.seq # w.seq]_vars

\* C18 as stated: a write-back for a change record never follows the
\* write-back for a later record of the shard.
C18_WriteBacksInShardOrder ==
  [][\A w \in writeLog' \ writeLog : \A v \in writeLog : v.seq <= w.seq]_vars

\* the steps one record handler may take: synthesize, store, link, each one
\* after the one before it succeeded, or fail
StepOrder ==
  {<<"polly", "s3">>, <<"s3", "ddb">>, <<"ddb", "done">>,
   <<"polly", "failed">>, <<"s3", "failed">>, <<"ddb", "failed">>}

\* C19: a record handler moves from synthesize to store to link, one step at a
\* time and only on success; an artifact is stored only by the store step and
\* the record is written only by the link step; and the summaryAudioUrl a
\* write-back set refers to a stored artifact.
C19_SynthesizeStoreLink ==
  /\ [][\A i \in batch \cap batch' :
          task'[i].pc # task[i].pc =>
            /\ <<task[i].pc, task'[i].pc>> \in StepOrder
            /\ artifacts' # artifacts => task[i].pc = "s3" /\ task'[i].pc = "ddb"
            /\ writeLog' # writeLog => task[i].pc = "ddb" /\ task'[i].pc = "done"]_vars
  /\ [][(artifacts' # artifacts \/ writeLog' # writeLog) =>
          \E i \in batch \cap batch' : task'[i].pc # task[i].pc]_vars
  /\ [](\A w \in writeLog : Stored(w.url))
  /\ [](\A k \in DOMAIN table :
          (HasAttr(table[k], "aiInsights") /\ HasAttr(table[k].aiInsights, "summaryAudioUrl"))
            => Stored(table[k].aiInsights.summaryAudioUrl))

\* a record was linked while another record handler of the batch had stored
\* its artifact and not linked it yet
C19_Witness ==
  \E i, j \in batch :
    /\ task[i].pc = "done" /\ \E w \in writeLog : w.seq = i /\ Stored(w.url)
    /\ task[j].pc = "ddb" /\ UploadKey(j) \in DOMAIN artifacts

NoAfterImage(i) == ~HasAttr(stream[i], "NewImage")

\* C20: the record handler of a record without after-image returns at once,
\* without throwing and without a call to Polly, S3 or DynamoDB (it never
\* waits for one, and no write-back carries the record's sequence token);
\* no result of an invocation counts the record as failed.
C20_NoAfterImageIsSuccess ==
  /\ \A i \in batch : NoAfterImage(i) => task[i] = TaskAt("done", 0, "")
  /\ \A i \in Seqs : NoAfterImage(i) => \A w \in writeLog : w.seq # i
  /\ \A i \in lastResult.records :
       NoAfterImage(i) => i \notin lastResult.batchItemFailures \cup lastResult.failed

\* a response that lists a failed record and not the record without
\* after-image that was delivered with it
C20_Witness ==
  /\ lastResult.kind = "response" /\ lastResult.batchItemFailures # {}
  /\ \E i \in lastResult.records : NoAfterImage(i) /\ deliveries[i] >= 1

\* C21: the record handler of an email without summary text throws before its
\* first call: it never waits for Polly, S3 or DynamoDB, no write-back carries
\* its sequence token, and a step that delivers it stores no artifact and
\* leaves the table and the shard as they are, however often it is delivered.
C21_NoSummaryNoEffect ==
  /\ [](\A i \in batch :
          MissingSummary(i) => task[i] = TaskAt("failed", 0, "Missing summary text"))
  /\ [](\A i \in Seqs : MissingSummary(i) => \A w \in writeLog : w.seq # i)
  /\ [][(\E i \in Seqs : MissingSummary(i) /\ deliveries'[i] > deliveries[i])
          => /\ table' = table /\ stream' = stream
             /\ artifacts' = artifacts /\ nextUuid' = nextUuid]_vars

\* an email without summary text was delivered twice and is in the table as
\* it was inserted, while an artifact was stored for another email
C21_Witness ==
  \E i \in Seqs :
    /\ IsInsert(stream[i]) /\ MissingSummary(i) /\ deliveries[i] >= 2
    /\ stream[i].key \in DOMAIN table /\ table[stream[i].key] = stream[i].NewImage
    /\ artifacts # <<>>

\* what is left of a map when attribute a is taken out
Without(m, a) == [x \in DOMAIN m \ {a} |-> m[x]]

\* C22: a step of the subsystem (the handler, the pipe, the bus) that changes
\* the table is the write-back of a record handler; it changes the record of
\* the event's key only, and in it nothing but aiInsights.summaryAudioUrl.
C22_WriteTouchesOnlyAudioUrl ==
  [][(table' # table /\ envOps' = envOps) =>
       \E i \in batch :
         LET k == stream[i].key
         IN /\ task[i].pc = "ddb" /\ task'[i].pc = "done"
            /\ k \in DOMAIN table /\ DOMAIN table' = DOMAIN table
            /\ \A j \in DOMAIN table \ {k} : table'[j] = table[j]
            /\ Without(table'[k], "aiInsights") = Without(table[k], "aiInsights")
            /\ HasAttr(table[k], "aiInsights") /\ HasAttr(table'[k], "aiInsights")
            /\ Without(table'[k].aiInsights, "summaryAudioUrl")
                 = Without(table[k].aiInsights, "summaryAudioUrl")
            /\ HasAttr(table'[k].aiInsights, "summaryAudioUrl")]_vars

\* a record was written back and kept its summary and category, another
\* record was left alone, and the pipe and the bus have handled the insert
C22_Witness ==
  \E k, j \in DOMAIN table :
    /\ k # j
    /\ HasAttr(table[k].aiInsights, "summaryAudioUrl")
    /\ HasAttr(table[k].aiInsights, "summary") /\ HasAttr(table[k].aiInsights, "category")
    /\ ~HasAttr(table[j].aiInsights, "summaryAudioUrl")
    /\ eventLog # {}

NamedTenant(img) ==
  IF HasAttr(img, "tenantId") THEN img.tenantId ELSE img.environment

MetricValue(m, name) == IF name \in DOMAIN m THEN m[name] ELSE 0
ErrorMetrics == {"ProcessingErrors", "MissingSummaryErrors", "PollyErrors",
                 "BatchProcessingErrors", "FailedRecords"}

\* C24: every record whose handler threw is counted in an error metric: while
\* the invocation runs, a failed record handler has added to an error metric
\* of the invocation, and when the invocation has reported its outcome with
\* failed records, the metrics it published hold an error metric.
C24_FailureIsCounted ==
  /\ (\E i \in batch : task[i].pc = "failed") =>
        \E name \in ErrorMetrics : MetricValue(metrics, name) > 0
  /\ (lastResult.kind \in {"response", "error"} /\ lastResult.failed # {}) =>
        \E name \in ErrorMetrics : MetricValue(published, name) > 0

\* C28: when an invocation of the multitenant handler returned a batch
\* response, the published counts satisfy SuccessfullyProcessed +
\* FailedRecords = BatchSize, FailedRecords being the length of the returned
\* failure list and absent when that list is empty.
C28_CountsAddUp ==
  (handlerVariant = "multitenant" /\ lastResult.kind = "response") =>
    /\ MetricValue(published, "BatchSize") = Cardinality(lastResult.records)
    /\ MetricValue(published, "SuccessfullyProcessed")
         + MetricValue(published, "FailedRecords") = MetricValue(published, "BatchSize")
    /\ MetricValue(published, "FailedRecords") = Cardinality(lastResult.batchItemFailures)
    /\ ("FailedRecords" \in DOMAIN published) <=> lastResult.batchItemFailures # {}

\* a response that lists a failure and one without failures were both counted
C28_Witness ==
  /\ handlerVariant = "multitenant"
  /\ lastResult.kind = "response"
  /\ MetricValue(published, "FailedRecords") = 1
  /\ MetricValue(published, "SuccessfullyProcessed") = 1
  /\ MetricValue(published, "BatchSize") = 2

\* the record handler of i throws in this step, after an await
ThrowsLate(i) ==
  /\ i \in batch /\ i \in batch'
  /\ task[i].pc \in {"polly", "s3", "ddb"}
  /\ task'[i].pc = "failed"

\* C30: the entry "Error processing record" that the catch block of a record
\* handler logs carries the tenant of that record; the entry has no tenant of
\* its own and takes the one appended to the logger of the module.
C30_ErrorLogCarriesOwnTenant ==
  [][\A i \in Seqs :
       (handlerVariant = "multitenant" /\ ThrowsLate(i)) =>
         loggerTenant = Tenant(stream[i].NewImage)]_vars

\* the change record of a write-back of the handler
IsWriteBack(i) ==
  /\ stream[i].eventName = "MODIFY"
  /\ HasAttr(stream[i].NewImage.aiInsights, "summaryAudioUrl")

\* no batch is running and the event source has passed every record
NoPendingWork == batch = {} /\ checkpoint = Len(stream)

\* C25: the change record of a write-back is never delivered to the handler
\* (the filter of the event source rejects it), and the event source comes
\* again and again to a state without pending work: no batch running and no
\* record of the shard left to read.
\* The count of deliveries of a record never decreases and the shard is
\* append-only, so write-backs that are undelivered again and again are
\* undelivered always.
C25_NoSelfTrigger ==
  []<>(/\ NoPendingWork
       /\ \A i \in Seqs : IsWriteBack(i) => deliveries[i] = 0)

\* the event source has passed a write-back and nothing is pending
C25_Witness ==
  /\ NoPendingWork
  /\ \E i \in Seqs : IsWriteBack(i) /\ \E w \in writeLog : w.key = stream[i].key

\* the record handler of i throws in this step, out of the call to Polly or
\* of the upload
FailsBeforeUpdate(i) ==
  /\ task[i].pc \in {"polly", "s3"}
  /\ task'[i].pc = "failed"

\* C26: a step in which synthesis or the upload of a record fails leaves the
\* table, the shard and the write-backs as they were; a record handler that
\* threw takes no further step; a record handler comes to the update only
\* from an upload that stored its artifact; and a record whose first delivery
\* failed has no write-back.
C26_FailureLeavesRecord ==
  /\ [][\A i \in batch \cap batch' :
          /\ FailsBeforeUpdate(i) =>
                table' = table /\ stream' = stream /\ writeLog' = writeLog
          /\ task[i].pc = "failed" => task'[i] = task[i]
          /\ (task[i].pc # "ddb" /\ task'[i].pc = "ddb") =>
                task[i].pc = "s3" /\ UploadKey(i) \in DOMAIN artifacts']_vars
  /\ [](\A i \in batch :
          (task[i].pc = "failed" /\ task[i].err # "DynamoDB error" /\ deliveries[i] = 1)
            => \A w \in writeLog : w.seq # i)

\* the upload of a record failed and the record is in the table as it was
\* inserted
C26_Witness ==
  \E i \in batch :
    /\ task[i].err = "S3 error"
    /\ stream[i].key \in DOMAIN table
    /\ table[stream[i].key] = stream[i].NewImage
    /\ \A w \in writeLog : w.seq # i

\* the record with key k refers to the artifact stored under storage key a
Refers(tbl, k, a) ==
  /\ HasAttr(tbl[k], "aiInsights")
  /\ HasAttr(tbl[k].aiInsights, "summaryAudioUrl")
  /\ tbl[k].aiInsights.summaryAudioUrl.key = a
Referenced(tbl, a) == \E k \in DOMAIN tbl : Refers(tbl, k, a)

\* C27: a step in which the update of a record fails leaves the artifact the
\* record handler uploaded in storage, referenced by no record; every delivery
\* of a record that gets past the upload adds exactly one artifact, under a
\* key that held none, and no other step adds, replaces or removes an
\* artifact (so a record has as many artifacts as deliveries that got past
\* the upload); a record comes to refer to an artifact only by the update of
\* the record handler that uploaded it; and a record refers to at most one
\* artifact.
C27_OrphanArtifacts ==
  /\ [][\A i \in batch \cap batch' :
          /\ (task[i].pc = "ddb" /\ task'[i].pc = "failed") =>
                /\ UploadKey(i) \in DOMAIN artifacts'
                /\ ~Referenced(table', UploadKey(i))
          /\ (task[i].pc = "s3" /\ task'[i].pc = "ddb") =>
                /\ UploadKey(i) \notin DOMAIN artifacts
                /\ DOMAIN artifacts' = DOMAIN artifacts \cup {UploadKey(i)}]_vars
  /\ [][/\ \A a \in DOMAIN artifacts :
             a \in DOMAIN artifacts' /\ artifacts'[a] = artifacts[a]
        /\ DOMAIN artifacts' # DOMAIN artifacts =>
             \E i \in batch \cap batch' : task[i].pc = "s3" /\ task'[i].pc = "ddb"
        /\ \A k \in DOMAIN table', a \in DOMAIN artifacts' :
             (Refers(table', k, a) /\ ~(k \in DOMAIN table /\ Refers(table, k, a))) =>
               \E i \in batch \cap batch' :
                 /\ task[i].pc = "ddb" /\ task'[i].pc = "done"
                 /\ stream[i].key = k /\ UploadKey(i) = a]_vars
  /\ [](\A k \in DOMAIN table :
          Cardinality({a \in DOMAIN artifacts : Refers(table, k, a)}) <= 1)

\* the update of a redelivered record failed again: two artifacts of the
\* record are stored and no record refers to either
C27_Witness ==
  \E i \in batch :
    /\ deliveries[i] >= 2
    /\ task[i].pc = "failed" /\ task[i].err \in {"DynamoDB error", "Update rejected"}
    /\ Cardinality({a \in DOMAIN artifacts :
                      artifacts[a] = ArtifactObject(handlerVariant, stream[i].NewImage)
                      /\ ~Referenced(table, a)}) >= 2

\* C29: the sendEmail handler never throws; it returns true when the mail
\* transport accepted the request and false when the call to it failed; and
\* the request it sent carries the sender, the recipients, the subject and the
\* body of its input.
C29_SendEmailReturnsOutcome ==
  /\ mail.pc = "ended" =>
       /\ mail.result.kind = "return"
       /\ mail.result.value = TRUE <=> mail.outcome = "accepted"
       /\ mail.outcome \in {"rejected", "unavailable"} => mail.result.value = FALSE
  /\ mail.pc \in {"sending", "ended"} =>
       /\ mail.command.Source = mail.input.from
       /\ mail.command.ToAddresses = mail.input.to
       /\ mail.command.Subject = mail.input.subject
       /\ mail.command.Text = mail.input.plainBody

\* the handler returned false after the transport rejected a request with two
\* recipients
C29_Witness ==
  /\ mail.pc = "ended"
  /\ mail.outcome = "rejected" /\ mail.result = [kind |-> "return", value |-> FALSE]
  /\ mail.input.to = Addresses /\ mail.input.subject # ""

====
